---- MODULE Spec2Model ----
(***************************************************************************)
(* Model of the employee task list view, app/src/pages/employee/Tasks.tsx. *)
(*                                                                         *)
(* Units.  Instants and durations are integer milliseconds, measured from  *)
(* an origin that lies before every instant used (only differences of      *)
(* instants are ever computed).  A number of hours (actualHours,           *)
(* totalHours) is held as an integer number of hundredths of an hour, so   *)
(* that Math.round(x * 100) / 100 is exact integer arithmetic:             *)
(* 1/100 h = 36000 ms.  Stored hours with more than two decimals and the   *)
(* binary floating point error of the division are outside the model.      *)
(*                                                                         *)
(* React.  A state setter called from a handler does not change what the   *)
(* component has rendered: the update is queued and applied by the next    *)
(* render.  tasks, loading and updatingTaskId are the values of the last   *)
(* render (what the buttons show and what the handlers' closures read);    *)
(* queue holds the updates not rendered yet.  The ref taskTimers is        *)
(* mutated in place.  The seeding effect of a render that changed tasks    *)
(* runs after that render and before the next one, with the tasks of its   *)
(* render.  Events (clicks, settled promises) are handled one at a time    *)
(* and only once the updates of the previous event are rendered; the       *)
(* effect of that render may not have run yet when the next event is       *)
(* handled.                                                                *)
(***************************************************************************)
EXTENDS Integers, Sequences, FiniteSets, TLC

VARIABLES
    tasks,           \* useState tasks, as last rendered
    loading,         \* useState loading, as last rendered
    updatingTaskId,  \* useState updatingTaskId, as last rendered
    queue,           \* state updates queued by handlers, not rendered yet
    seedPending,     \* the seeding effect of the last render has not run yet
    taskTimers,      \* useRef taskTimers.current: task id -> start instant
    loadCall,        \* the promise of api.getMyTasks()
    starting,        \* handleStartTask invocations awaiting api.updateTask
    completing,      \* handleCompleteTask invocations awaiting api.updateTask
    nreq,            \* number of api.updateTask calls issued so far
    now,             \* Date.now()
    console          \* number of messages written by console.error

vars == <<tasks, loading, updatingTaskId, queue, seedPending, taskTimers,
          loadCall, starting, completing, nreq, now, console>>

----------------------------------------------------------------------------
(* Bounds *)

MaxRequests == 4     \* api.updateTask calls issued over a run
MaxTicks == 1        \* clock advances over a run

TickMs == 30 * 60 * 1000            \* one clock advance: 30 minutes
StartOfTime == 3 * 3600 * 1000 + 500   \* Date.now() when the view mounts
MsPerCentiHour == (3600 * 1000) \div 100

Null == "null"
Ids == {"a", "b"}

----------------------------------------------------------------------------
(* Pure helpers *)

\* new Date(ms).toISOString(): seconds and a three-digit millisecond field.
ToISOString(ms) == [secs |-> ms \div 1000, millis |-> ms % 1000]

\* new Date(iso).getTime()
DateGetTime(iso) == iso.secs * 1000 + iso.millis

\* (x || 0) on an optional number; <<>> is undefined
OrZero(opt) == IF opt = <<>> THEN 0 ELSE opt[1]

\* truthiness of taskTimers.current[id]: present and not 0
HasTimer(timers, id) == id \in DOMAIN timers /\ timers[id] # 0

\* taskTimers.current[id] = v
PutTimer(timers, id, v) ==
    [k \in DOMAIN timers \cup {id} |-> IF k = id THEN v ELSE timers[k]]

\* delete taskTimers.current[id]
DeleteTimer(timers, id) == [k \in DOMAIN timers \ {id} |-> timers[k]]

\* Math.round(totalHours * 100), totalHours given in milliseconds
\* (Math.round rounds halves up); the result is in hundredths of an hour.
RoundHours(ms) == (ms + MsPerCentiHour \div 2) \div MsPerCentiHour

\* the elapsed session alone: baseHours left out of the sum
TotalHoursElapsedOnly(ts, timers, taskId, t) ==
    IF HasTimer(timers, taskId)
    THEN RoundHours(t - timers[taskId])
    ELSE 0

\* lines 119-127: the hours handleCompleteTask sends, at instant t
TotalHours(ts, timers, taskId, t) ==
    LET found == {i \in 1..Len(ts) : ts[i].id = taskId}
        baseHours == IF found = {} THEN 0
                     ELSE OrZero(ts[CHOOSE i \in found : \A j \in found : i <= j].actualHours)
    IN IF HasTimer(timers, taskId)
       THEN RoundHours(baseHours * MsPerCentiHour + (t - timers[taskId]))
       ELSE RoundHours(baseHours * MsPerCentiHour)

\* the approximation used even when the task carries startedAt
SeedInstantApprox(task, t) == t - OrZero(task.actualHours) * MsPerCentiHour

\* lines 88-94: the start instant the seeding effect gives a task, at instant t
SeedInstant(task, t) ==
    IF task.startedAt # <<>>
    THEN DateGetTime(task.startedAt[1])
    ELSE t - OrZero(task.actualHours) * MsPerCentiHour

\* lines 85-96: tasks.forEach of the seeding effect
RECURSIVE SeedTimers(_, _, _, _)
SeedTimers(ts, i, timers, t) ==
    IF i > Len(ts) THEN timers
    ELSE LET task == ts[i]
             next == IF task.status = "in_progress" /\ ~HasTimer(timers, task.id)
                     THEN PutTimer(timers, task.id, SeedInstant(task, t))
                     ELSE timers
         IN SeedTimers(ts, i + 1, next, t)

\* lines 39-59: LiveTimer, the <<hours, minutes, seconds>> it displays at t
LiveTimer(startedAt, baseHours, t) ==
    LET elapsed == (t - startedAt) \div 1000
        totalSeconds == elapsed + (baseHours * 3600) \div 100
    IN <<totalSeconds \div 3600, (totalSeconds % 3600) \div 60, totalSeconds % 60>>

\* What getMyTasks resolves to: an array (isArray, its items) or an object, whose
\* data field is <<>> when absent and <<list>> when present.
ArrayOf(list) == [isArray |-> TRUE, items |-> list, data |-> <<>>]
Envelope(field) == [isArray |-> FALSE, items |-> <<>>, data |-> field]

\* the envelope unwrapped only when it is an array: a missing ?.data fallback
NormalizeArrayOnly(data) == IF data.isArray THEN data.items ELSE <<>>

\* line 73: Array.isArray(data) ? data : (data?.data ?? [])
Normalize(data) ==
    IF data.isArray THEN data.items
    ELSE IF data.data # <<>> THEN data.data[1]
    ELSE <<>>

\* lines 105-107: prev.map of handleStartTask
StartedMap(prev, taskId, t) ==
    [i \in 1..Len(prev) |->
        IF prev[i].id = taskId
        THEN [prev[i] EXCEPT !.status = "in_progress", !.startedAt = <<ToISOString(t)>>]
        ELSE prev[i]]

\* lines 130-132: prev.map of handleCompleteTask
CompletedMap(prev, taskId, totalHours) ==
    [i \in 1..Len(prev) |->
        IF prev[i].id = taskId
        THEN [prev[i] EXCEPT !.status = "completed", !.actualHours = <<totalHours>>]
        ELSE prev[i]]

\* one queued update applied to the state <<tasks, loading, updatingTaskId>>
ApplyUpdate(st, u) ==
    IF u.set = "tasks" THEN [st EXCEPT !.tasks = u.list]
    ELSE IF u.set = "started" THEN [st EXCEPT !.tasks = StartedMap(st.tasks, u.taskId, u.value)]
    ELSE IF u.set = "completed" THEN [st EXCEPT !.tasks = CompletedMap(st.tasks, u.taskId, u.value)]
    ELSE IF u.set = "loading" THEN [st EXCEPT !.loading = FALSE]
    ELSE [st EXCEPT !.updatingTaskId = u.taskId]

RECURSIVE ApplyQueue(_, _)
ApplyQueue(st, q) ==
    IF q = <<>> THEN st ELSE ApplyQueue(ApplyUpdate(st, Head(q)), Tail(q))

SetsTasks(q) == \E i \in 1..Len(q) : q[i].set \in {"tasks", "started", "completed"}

Update(kind, taskId, value, list) ==
    [set |-> kind, taskId |-> taskId, value |-> value, list |-> list]

----------------------------------------------------------------------------
(* What api.getMyTasks() may answer *)

T0 == StartOfTime - 65 * 1000

Task(id, status, hours, started) ==
    [id |-> id, status |-> status, actualHours |-> hours, startedAt |-> started]

Lists ==
    { <<>>,
      <<Task("a", "pending", <<200>>, <<>>), Task("b", "pending", <<>>, <<>>)>>,
      <<Task("a", "in_progress", <<50>>, <<>>), Task("b", "pending", <<>>, <<>>)>>,
      <<Task("a", "in_progress", <<50>>, <<ToISOString(T0)>>)>>,
      <<Task("a", "completed", <<250>>, <<ToISOString(T0)>>)>> }

\* a bare sequence, an envelope with a data field, an envelope without one
Responses ==
    {ArrayOf(l) : l \in Lists}
    \cup {Envelope(<< <<Task("a", "in_progress", <<>>, <<>>)>> >>)}
    \cup {Envelope(<<>>)}

----------------------------------------------------------------------------
(* Initial state: the component has mounted, getMyTasks is outstanding *)

Init ==
    /\ tasks = <<>>
    /\ loading = TRUE
    /\ updatingTaskId = Null
    /\ queue = <<>>
    /\ seedPending = FALSE
    /\ taskTimers = <<>>
    /\ loadCall = [state |-> "pending", data |-> Envelope(<<>>)]
    /\ starting = {}
    /\ completing = {}
    /\ nreq = 0
    /\ now = StartOfTime
    /\ console = 0

----------------------------------------------------------------------------
(* Actions *)

\* the state as rendered, and as the next render will show it
Rendered == [tasks |-> tasks, loading |-> loading, updatingTaskId |-> updatingTaskId]
Latest == ApplyQueue(Rendered, queue)

\* what tells two outstanding updateTask calls apart: the least number not in use
FreshSeq ==
    LET used == {r.seq : r \in starting} \cup {r.seq : r \in completing}
    IN CHOOSE n \in 1..(MaxRequests + 1) : n \notin used /\ \A m \in 1..(n - 1) : m \in used

\* lines 72-74, 78: getMyTasks resolves
LoadResolve(data) ==
    /\ loadCall.state = "pending"
    /\ loadCall' = [state |-> "resolved", data |-> data]
    /\ queue' = queue \o <<Update("tasks", Null, 0, Normalize(data)),
                           Update("loading", Null, 0, <<>>)>>
    /\ UNCHANGED <<tasks, loading, updatingTaskId, seedPending, taskTimers,
                   starting, completing, nreq, now, console>>

\* lines 75-78: getMyTasks rejects
LoadReject ==
    /\ loadCall.state = "pending"
    /\ loadCall' = [loadCall EXCEPT !.state = "rejected"]
    /\ console' = console + 1
    /\ queue' = Append(queue, Update("loading", Null, 0, <<>>))
    /\ UNCHANGED <<tasks, loading, updatingTaskId, seedPending, taskTimers,
                   starting, completing, nreq, now>>

\* React renders: the queued updates become the rendered state.  The effect of
\* the previous render has run by then; tasks is a new array whenever setTasks
\* was called, so the seeding effect is scheduled again.
Render ==
    /\ queue # <<>>
    /\ ~seedPending
    /\ tasks' = Latest.tasks
    /\ loading' = Latest.loading
    /\ updatingTaskId' = Latest.updatingTaskId
    /\ seedPending' = SetsTasks(queue)
    /\ queue' = <<>>
    /\ UNCHANGED <<taskTimers, loadCall, starting, completing, nreq, now, console>>

\* lines 84-97: the seeding effect, with the tasks of the render it belongs to
SeedEffect ==
    /\ seedPending
    /\ taskTimers' = SeedTimers(tasks, 1, taskTimers, now)
    /\ seedPending' = FALSE
    /\ UNCHANGED <<tasks, loading, updatingTaskId, queue, loadCall, starting,
                   completing, nreq, now, console>>

\* lines 281-287, 100-103: click on Iniciar of a rendered pending task
ClickStart(i) ==
    /\ ~loading
    /\ queue = <<>>
    /\ nreq < MaxRequests
    /\ tasks[i].status = "pending"
    /\ updatingTaskId # tasks[i].id
    /\ queue' = Append(queue, Update("updatingTaskId", tasks[i].id, 0, <<>>))
    /\ starting' = starting \cup {[seq |-> FreshSeq, taskId |-> tasks[i].id, now |-> now]}
    /\ nreq' = nreq + 1
    /\ UNCHANGED <<tasks, loading, updatingTaskId, seedPending, taskTimers,
                   loadCall, completing, now, console>>

\* the start instant read when the response arrives, not captured before the call
StartResolveAtResponse(r) ==
    /\ queue = <<>>
    /\ starting' = starting \ {r}
    /\ taskTimers' = PutTimer(taskTimers, r.taskId, now)
    /\ queue' = queue \o <<Update("started", r.taskId, now, <<>>),
                           Update("updatingTaskId", Null, 0, <<>>)>>
    /\ UNCHANGED <<tasks, loading, updatingTaskId, seedPending, loadCall,
                   completing, nreq, now, console>>

\* lines 104-107, 111: updateTask of a Start resolves
StartResolve(r) ==
    /\ queue = <<>>
    /\ starting' = starting \ {r}
    /\ taskTimers' = PutTimer(taskTimers, r.taskId, r.now)
    /\ queue' = queue \o <<Update("started", r.taskId, r.now, <<>>),
                           Update("updatingTaskId", Null, 0, <<>>)>>
    /\ UNCHANGED <<tasks, loading, updatingTaskId, seedPending, loadCall,
                   completing, nreq, now, console>>

\* the timer recorded before the call is known to have succeeded
StartRejectOptimistic(r) ==
    /\ queue = <<>>
    /\ starting' = starting \ {r}
    /\ taskTimers' = PutTimer(taskTimers, r.taskId, r.now)
    /\ console' = console + 1
    /\ queue' = Append(queue, Update("updatingTaskId", Null, 0, <<>>))
    /\ UNCHANGED <<tasks, loading, updatingTaskId, seedPending,
                   loadCall, completing, nreq, now>>

\* lines 108-111: updateTask of a Start rejects
StartReject(r) ==
    /\ queue = <<>>
    /\ starting' = starting \ {r}
    /\ console' = console + 1
    /\ queue' = Append(queue, Update("updatingTaskId", Null, 0, <<>>))
    /\ UNCHANGED <<tasks, loading, updatingTaskId, seedPending, taskTimers,
                   loadCall, completing, nreq, now>>

\* lines 296-301, 116-128: click on Concluir of a rendered in_progress task
ClickComplete(i) ==
    /\ ~loading
    /\ queue = <<>>
    /\ nreq < MaxRequests
    /\ tasks[i].status = "in_progress"
    /\ updatingTaskId # tasks[i].id
    /\ queue' = Append(queue, Update("updatingTaskId", tasks[i].id, 0, <<>>))
    /\ completing' = completing \cup
           {[seq |-> FreshSeq, taskId |-> tasks[i].id,
             totalHours |-> TotalHours(tasks, taskTimers, tasks[i].id, now)]}
    /\ nreq' = nreq + 1
    /\ UNCHANGED <<tasks, loading, updatingTaskId, seedPending, taskTimers,
                   loadCall, starting, now, console>>

\* lines 129-132, 136: updateTask of a Complete resolves
CompleteResolve(r) ==
    /\ queue = <<>>
    /\ completing' = completing \ {r}
    /\ taskTimers' = DeleteTimer(taskTimers, r.taskId)
    /\ queue' = queue \o <<Update("completed", r.taskId, r.totalHours, <<>>),
                           Update("updatingTaskId", Null, 0, <<>>)>>
    /\ UNCHANGED <<tasks, loading, updatingTaskId, seedPending, loadCall,
                   starting, nreq, now, console>>

\* the marker cleared on success only: no finally block
CompleteRejectNoFinally(r) ==
    /\ queue = <<>>
    /\ completing' = completing \ {r}
    /\ console' = console + 1
    /\ UNCHANGED <<tasks, loading, updatingTaskId, queue, seedPending, taskTimers,
                   loadCall, starting, nreq, now>>

\* lines 133-136: updateTask of a Complete rejects
CompleteReject(r) ==
    /\ queue = <<>>
    /\ completing' = completing \ {r}
    /\ console' = console + 1
    /\ queue' = Append(queue, Update("updatingTaskId", Null, 0, <<>>))
    /\ UNCHANGED <<tasks, loading, updatingTaskId, seedPending, taskTimers,
                   loadCall, starting, nreq, now>>

\* the wall clock advances while the list is shown and the view is idle (nothing
\* reads the clock before the list is shown)
Tick ==
    /\ ~loading
    /\ queue = <<>>
    /\ ~seedPending
    /\ now < StartOfTime + MaxTicks * TickMs
    /\ now' = now + TickMs
    /\ UNCHANGED <<tasks, loading, updatingTaskId, queue, seedPending, taskTimers,
                   loadCall, starting, completing, nreq, console>>

Next ==
    \/ \E data \in Responses : LoadResolve(data)
    \/ LoadReject
    \/ Render
    \/ SeedEffect
    \/ \E i \in 1..Len(tasks) : ClickStart(i)
    \/ \E r \in starting : StartResolve(r)
    \/ \E r \in starting : StartReject(r)
    \/ \E i \in 1..Len(tasks) : ClickComplete(i)
    \/ \E r \in completing : CompleteResolve(r)
    \/ \E r \in completing : CompleteReject(r)
    \/ Tick

Spec == Init /\ [][Next]_vars

\* The load call settles, and React renders queued updates and runs scheduled
\* effects.
LoadSettles == LoadReject \/ \E data \in Responses : LoadResolve(data)
FairSpec == Spec /\ WF_vars(LoadSettles) /\ WF_vars(Render) /\ WF_vars(SeedEffect)

----------------------------------------------------------------------------
(* Claims *)

Outstanding == {r.taskId : r \in starting} \cup {r.taskId : r \in completing}

\* the rendered task with this id (tasks.find)
Find(ts, id) == ts[CHOOSE i \in 1..Len(ts) : ts[i].id = id /\ \A j \in 1..(i - 1) : ts[j].id # id]

Has(ts, id) == \E i \in 1..Len(ts) : ts[i].id = id

\* C1: in every step a task's status stays, or moves pending -> in_progress or
\* in_progress -> completed: no step changes the status of a completed task
\* and no step sets a status to pending.
C1_StatusOnlyAdvances ==
    [][\A i \in 1..Len(tasks) :
          /\ i <= Len(tasks')
          /\ tasks[i].status = "completed" => tasks'[i].status = "completed"
          /\ tasks[i].status = "in_progress" => tasks'[i].status \in {"in_progress", "completed"}
          /\ tasks[i].status = "pending" => tasks'[i].status \in {"pending", "in_progress"}]_vars

\* C2: while an updateTask call of Start(T) or Complete(T) is outstanding and
\* the view has rendered every queued update, updatingTaskId is T.
C2_DisabledWhileOutstanding ==
    queue = <<>> => \A id \in Outstanding : updatingTaskId = id

\* C4: once every queued update is rendered, a timer entry exists for a task
\* only if the task's status is in_progress.
C4_TimerOnlyWhileInProgress ==
    queue = <<>> =>
        \A id \in DOMAIN taskTimers : Has(tasks, id) /\ Find(tasks, id).status = "in_progress"

\* C10: a task loaded as in_progress with stored hours h and no startedAt, seeded
\* at the load and not changed since, is displayed with h plus the time since
\* the load (the view mounts and loads at StartOfTime) and is completed with
\* that sum, rounded to 1/100 hour.
C10_StoredHoursCountedOnce ==
    [][/\ \A i \in 1..Len(tasks) :
            LET task == tasks[i]
                h == OrZero(task.actualHours)
                secs == (h * 3600) \div 100 + (now - StartOfTime) \div 1000
            IN (/\ loadCall.state = "resolved"
                /\ Find(Normalize(loadCall.data), task.id) = task
                /\ task.status = "in_progress"
                /\ task.startedAt = <<>>
                /\ HasTimer(taskTimers, task.id))
               => LiveTimer(taskTimers[task.id], h, now)
                     = <<secs \div 3600, (secs % 3600) \div 60, secs % 60>>
       /\ \A c \in completing' \ completing :
          LET task == Find(tasks, c.taskId)
              h == OrZero(task.actualHours)
              total == h * MsPerCentiHour + (now - StartOfTime)
          IN (/\ loadCall.state = "resolved"
              /\ Has(Normalize(loadCall.data), c.taskId)
              /\ Find(Normalize(loadCall.data), c.taskId) = task
              /\ task.startedAt = <<>>
              /\ HasTimer(taskTimers, c.taskId))
             => /\ (2 * c.totalHours - 1) * MsPerCentiHour <= 2 * total
                /\ 2 * total < (2 * c.totalHours + 1) * MsPerCentiHour]_vars

\* k hundredths of an hour is ms milliseconds rounded to two decimals of an hour
\* (halves rounded up)
Rounded(k, ms) ==
    /\ (2 * k - 1) * MsPerCentiHour <= 2 * ms
    /\ 2 * ms < (2 * k + 1) * MsPerCentiHour

\* C3: a step in which an API call rejects (it logs to the console) changes no
\* timer entry and queues no change of any task.
C3_RejectChangesNothing ==
    [][console' # console => taskTimers' = taskTimers /\ Latest'.tasks = Latest.tasks]_vars

C3_Witness ==
    /\ console > 0 /\ nreq > 0 /\ queue = <<>> /\ Outstanding = {}
    /\ \E i \in 1..Len(tasks) : tasks[i].status = "pending"
    /\ \E i \in 1..Len(tasks) : tasks[i].status = "in_progress" /\ HasTimer(taskTimers, tasks[i].id)

\* C5: a Complete of in_progress task T with stored hours h invoked at instant
\* now sends h + (now - s) rounded to 1/100 hour when T has timer entry s, and
\* h when it has none; when the call resolves the handler removes T's timer
\* entry and sets T's status to completed and actualHours to the hours sent.
C5_CompleteRecordsTotal ==
    [][/\ \A c \in completing' \ completing :
            LET task == Find(tasks, c.taskId)
                h == OrZero(task.actualHours)
            IN /\ task.status = "in_progress"
               /\ IF c.taskId \in DOMAIN taskTimers
                  THEN Rounded(c.totalHours, h * MsPerCentiHour + (now - taskTimers[c.taskId]))
                  ELSE c.totalHours = h
       /\ \A c \in completing \ completing' :
            console' = console =>
               /\ c.taskId \notin DOMAIN taskTimers'
               /\ Find(Latest'.tasks, c.taskId).status = "completed"
               /\ Find(Latest'.tasks, c.taskId).actualHours = <<c.totalHours>>]_vars

\* 2.0 h stored, started at StartOfTime, completed 1800000 ms later: 2.5 h
C5_Witness ==
    /\ now = StartOfTime + 1800000
    /\ "a" \notin DOMAIN taskTimers
    /\ Has(tasks, "a")
    /\ Find(tasks, "a") = Task("a", "completed", <<250>>, <<ToISOString(StartOfTime)>>)
    /\ Find(Normalize(loadCall.data), "a").actualHours = <<200>>

\* C6: a Start captures the instant n of the click; when its call resolves, the
\* handler sets T's timer entry to n and changes no other entry, and sets T's
\* status to in_progress and its startedAt to n and changes no other task.
C6_StartRecordsClickInstant ==
    [][/\ \A r \in starting' \ starting :
            r.now = now /\ Find(tasks, r.taskId).status = "pending"
       /\ \A r \in starting \ starting' :
            console' = console =>
               /\ DOMAIN taskTimers' = DOMAIN taskTimers \cup {r.taskId}
               /\ taskTimers'[r.taskId] = r.now
               /\ \A k \in DOMAIN taskTimers \ {r.taskId} : taskTimers'[k] = taskTimers[k]
               /\ Len(Latest'.tasks) = Len(Latest.tasks)
               /\ \A i \in 1..Len(Latest.tasks) :
                     LET old == Latest.tasks[i]
                         new == Latest'.tasks[i]
                     IN IF old.id = r.taskId
                        THEN /\ new.id = old.id
                             /\ new.status = "in_progress"
                             /\ new.actualHours = old.actualHours
                             /\ new.startedAt # <<>>
                             /\ DateGetTime(new.startedAt[1]) = r.now
                        ELSE new = old]_vars

C6_Witness ==
    /\ queue = <<>> /\ now > StartOfTime
    /\ \E i \in 1..Len(tasks) :
          /\ Find(Normalize(loadCall.data), tasks[i].id).status = "pending"
          /\ tasks[i].status = "in_progress"
          /\ tasks[i].startedAt = <<ToISOString(StartOfTime)>>
          /\ HasTimer(taskTimers, tasks[i].id)
          /\ taskTimers[tasks[i].id] = StartOfTime

\* C7: when no updateTask call is outstanding and every queued update is
\* rendered, updatingTaskId is null.
C7_MarkerCleared ==
    (Outstanding = {} /\ queue = <<>>) => updatingTaskId = Null

C7_Witness ==
    /\ Outstanding = {} /\ queue = <<>> /\ updatingTaskId = Null
    /\ nreq >= 2 /\ console > 0
    /\ \E i \in 1..Len(tasks) : tasks[i] # Normalize(loadCall.data)[i]

\* C8: a run of the seeding effect keeps every existing entry, gives every
\* in_progress task without an entry the instant of its startedAt, or
\* now - actualHours when it carries none, and creates no other entry.
C8_SeedingEntries ==
    [][(seedPending /\ ~seedPending') =>
          \A id \in Ids :
             IF id \in DOMAIN taskTimers
             THEN id \in DOMAIN taskTimers' /\ taskTimers'[id] = taskTimers[id]
             ELSE IF Has(tasks, id) /\ Find(tasks, id).status = "in_progress"
             THEN /\ id \in DOMAIN taskTimers'
                  /\ LET task == Find(tasks, id)
                     IN IF task.startedAt # <<>>
                        THEN ToISOString(taskTimers'[id]) = task.startedAt[1]
                        ELSE taskTimers'[id] = now - OrZero(task.actualHours) * 36000
             ELSE id \notin DOMAIN taskTimers']_vars

\* the reload scenario: startedAt T0 seeds exactly T0
C8_Witness ==
    /\ ~seedPending /\ Has(tasks, "a")
    /\ Find(tasks, "a") = Task("a", "in_progress", <<50>>, <<ToISOString(T0)>>)
    /\ "a" \in DOMAIN taskTimers /\ taskTimers["a"] = T0

\* C9: the loading flag is eventually cleared; once the load call has settled
\* and its updates are rendered the flag is clear; and the render that clears
\* it shows no task when the call rejected, the returned array when it
\* resolved to one, else the data field of the returned object, or no task
\* when that field is absent.
C9_LoadClearsLoading ==
    /\ <>(~loading)
    /\ []((loadCall.state # "pending" /\ queue = <<>>) => ~loading)
    /\ [][(loading /\ ~loading') =>
             tasks' = IF loadCall.state = "rejected" THEN <<>>
                      ELSE IF loadCall.data.isArray THEN loadCall.data.items
                      ELSE IF Len(loadCall.data.data) = 1 THEN loadCall.data.data[1]
                      ELSE <<>>]_vars

C9_Witness ==
    /\ ~loading /\ loadCall.state = "resolved" /\ ~loadCall.data.isArray
    /\ Len(tasks) = 1 /\ nreq = 0

====
